---- MODULE Spec2Model ----
(***************************************************************************)
(* Model of the agent pool scheduler of evolution_connector               *)
(* (src/src/bot_manager.py): the registry bots_dict, the coroutines run   *)
(* by the background event loop, the gateway callback and the inactivity  *)
(* monitor thread.  Every step is one access to the shared registry, so   *)
(* the three threads interleave as the interpreter lets them.             *)
(***************************************************************************)
EXTENDS Integers, Sequences, FiniteSets, TLC

\* ------------------------------------------------------------------ bounds
NumPhones == 2
MaxMsgs == 2
MaxCmds == 1
MaxTicks == 1
MaxSweeps == 1
MaxFaults == 1
\* the assignment-only runs: more callers than the pool holds, no monitor
NumDrawPhones == 4
DrawMsgs == 4
\* the sweep runs: a registry full of idle callers, one inbound message
SweepMsgs == 1
\* the bookkeeping runs: messages whose bookkeeping tasks are followed
PersistMsgs == 3
FallbackMsgs == 2
ShutdownMsgs == 1
EventMsgs == 2
EventCmds == 2
MaxThreads == 2
StartupMsgs == 1
\* the runs with clear_customer_cache: messages followed, calls made
ClearMsgs == 2
MaxClears == 1

\* ------------------------------------------------------- program constants
InitialPool == 3
PoolFloor == 3
CloseLimit == 10
inactive_threshold == 20 * 60

Phones == 1..NumPhones
DrawPhones == 1..NumDrawPhones
\* the callers of a busy registry: as many as the close limit, or one more
BusyCounts == {CloseLimit, CloseLimit + 1}
\* who writes during a sweep: the first of the busy callers, or a new caller
SweepPhones == {1, CloseLimit + 2}
AllPhones == Phones \cup DrawPhones \cup (1..(CloseLimit + 2))

\* ---------------------------------------------------------------- helpers
Max(S) == CHOOSE x \in S : \A y \in S : y <= x
Min(S) == CHOOSE x \in S : \A y \in S : x <= y
Range(s) == {s[i] : i \in 1..Len(s)}

\* ------------------------------------------------------------------- keys
\* f"A{n}" and the caller's phone, the two namespaces of bots_dict
PoolKey(i) == <<"A", i>>
UserKey(p) == <<"U", p>>
NoKey == <<"-", 0>>
\* extra_keys was empty: nothing was assigned
NoPool == <<"-", 1>>
\* k.startswith('A')
IsPool(k) == k[1] = "A"
\* int(k[1:])
IndexOf(k) == k[2]

\* --------------------------------------------------------------- registry
\* bots_dict: an insertion-ordered dict key -> [timestamp, bot, active]
NoSlot == [ts |-> 0, bot |-> 0, active |-> FALSE]
Entry(k, s) == [key |-> k, ts |-> s.ts, bot |-> s.bot, active |-> s.active]
SlotOf(e) == [ts |-> e.ts, bot |-> e.bot, active |-> e.active]
NewSlot(t, b) == [ts |-> t, bot |-> b, active |-> TRUE]

Keys(r) == {r[i].key : i \in 1..Len(r)}
Has(r, k) == k \in Keys(r)
Pos(r, k) == CHOOSE i \in 1..Len(r) : r[i].key = k
Get(r, k) == SlotOf(r[Pos(r, k)])
\* d[k] = v : in place when the key exists, appended otherwise
Put(r, k, s) ==
    IF Has(r, k) THEN [r EXCEPT ![Pos(r, k)] = Entry(k, s)]
    ELSE Append(r, Entry(k, s))
\* del d[k] / d.pop(k)
Del(r, k) == SelectSeq(r, LAMBDA e : e.key # k)
\* [k for k in d if k.startswith('A')]
KeySeq(r) == [i \in 1..Len(r) |-> r[i].key]
PoolKeys(r) == SelectSeq(KeySeq(r), IsPool)
\* [k for k in d if not k.startswith('A')]
UserKeys(r) == SelectSeq(KeySeq(r), LAMBDA k : ~IsPool(k))
\* max([int(k[1:]) for k in d if k.startswith('A')], default=0) + 1
NextIndex(r) ==
    IF PoolKeys(r) = <<>> THEN 1
    ELSE Max({IndexOf(k) : k \in Range(PoolKeys(r))}) + 1


\* ------------------------------------------------------------------ state
VARIABLES
    reg,        \* self.bots_dict
    now,        \* time.time()
    ticks,      \* clock advances so far
    nextBot,    \* identity of the next Fastchat instance created
    readyQ,     \* the event loop's ready queue (call_soon order)
    cur,        \* the coroutine the loop thread is running: <<>> or <<task>>
    waiting,    \* coroutines suspended on an await (agent query, initialize)
    delivered,  \* inbound user messages delivered by the gateway so far
    cmds,       \* self-sent messages delivered so far
    gw,         \* the gateway callback thread
    mon,        \* the monitor thread and the locals of its sweep
    sweeps,     \* sweeps started so far
    faults,     \* agent operations that raised so far
    outcome,    \* per inbound message: what became of it
    closeCount, \* per agent: how many times close() was invoked on it
    resets,     \* per agent: how many reset signals were sent to it
    confirms,   \* per phone: "Bot reactivado" confirmations sent
    muted,      \* phones deactivated by a self-sent text and not yet restarted
    closeFailed, \* agents whose close() raised
    cache, \* self.customer_cache: per phone the cached customer id, 0 when absent
    stats, \* self.cache_stats
    db, \* the customers table: rows per phone (the n-th row has id n)
    note, \* per inbound message: what its bookkeeping task did
    loopUp, \* the background loop of _start_async_loop is running
    sd, \* the signal handler of main.py, run by the main thread
    threads, \* the monitor threads started by start_monitoring
    boot, \* how far main() has got, and the credentials of the environment
    cleared, \* calls of clear_customer_cache so far
    lim         \* the bounds of this run: inputs and faults it may still take

vars == <<reg, now, ticks, nextBot, readyQ, cur, waiting, delivered, cmds, gw, mon,
          sweeps, faults, outcome, closeCount, resets, confirms, muted, closeFailed,
          cache, stats, db, note, loopUp, sd, threads, boot, cleared, lim>>

\* agents that can exist within the bounds: the initial pool plus one per draw
MostMsgs == Max({MaxMsgs, DrawMsgs, SweepMsgs, PersistMsgs, FallbackMsgs, ShutdownMsgs, EventMsgs,
                 StartupMsgs, ClearMsgs})
MaxBotId == InitialPool + CloseLimit + 1 + MostMsgs
Bots == 1..MaxBotId
MsgIds == 1..MostMsgs

\* ------------------------------------------------------------ coroutines
\* late: the message arrived while its caller was deactivated (bookkeeping
\* of the model, the code keeps no such flag)
\* cid: the customer_id local of _handle_customer_data, 0 for None
Task(kind, id, phone, pc, k, slot, late) ==
    [kind |-> kind, id |-> id, phone |-> phone, pc |-> pc, k |-> k, slot |-> slot,
     late |-> late, cid |-> 0]
MsgTask(id, p, late) == Task("msg", id, p, "start", NoKey, NoSlot, late)
CreateTask(id, k) == Task("create", id, 0, "init", k, NoSlot, FALSE)
PersistTask(id, p) == Task("persist", id, p, "cache", NoKey, NoSlot, FALSE)
\* lookup: "hit" or "miss" once the cache was asked; fetched: get_customers was
\* called; persist: how the task ended
\* warned: the message was announced as processed synchronously
NoNote == [lookup |-> "none", fetched |-> FALSE, persist |-> "none", warned |-> FALSE]

\* the coroutine in the middle of a synchronous stretch
Running(kind, pc) == cur # <<>> /\ cur[1].kind = kind /\ cur[1].pc = pc
\* the loop thread is between callbacks and takes the head of the ready queue
\* (asyncio runs ready callbacks in the order they were scheduled)
Ready(kind, pc) ==
    /\ cur = <<>>
    /\ readyQ # <<>>
    /\ Head(readyQ).kind = kind
    /\ Head(readyQ).pc = pc
Goto(pc) == cur' = <<[cur[1] EXCEPT !.pc = pc]>>
Finish(what) ==
    /\ cur' = <<>>
    /\ outcome' = [outcome EXCEPT ![cur[1].id] = what]

\* _process_user_message, line 202: if phone not in self.bots_dict, and
\* _assign_bot_to_user, lines 251-253: extra_keys[0], or nothing to assign.
\* Only this thread inserts caller keys, so the two reads are one step.
NeedsBotAlways(r, p) == TRUE
NeedsBot(r, p) == ~Has(r, UserKey(p))
FirstExtra(r) == Head(PoolKeys(r))
ProcessCheckAssigned ==
    /\ Ready("msg", "start")
    /\ readyQ' = Tail(readyQ)
    /\ LET t == Head(readyQ) IN
       IF NeedsBot(reg, t.phone) /\ PoolKeys(reg) # <<>>
       THEN cur' = <<[t EXCEPT !.pc = "pop", !.k = FirstExtra(reg)]>>
       ELSE cur' = <<[t EXCEPT !.pc = "check",
                               !.k = IF NeedsBot(reg, t.phone) THEN NoPool ELSE NoKey]>>
    /\ UNCHANGED <<reg, now, ticks, nextBot, waiting, delivered, cmds, gw, mon,
                   sweeps, faults, outcome, closeCount, resets, confirms, muted,
                   closeFailed, cache, stats, db, note, loopUp, sd, threads, boot,
                   cleared, lim>>

\* line 254: assigned_bot = self.bots_dict.pop(first_extra)
AssignPop ==
    /\ Running("msg", "pop")
    /\ IF Has(reg, cur[1].k)
       THEN /\ cur' = <<[cur[1] EXCEPT !.pc = "insert", !.slot = Get(reg, cur[1].k)]>>
            /\ reg' = Del(reg, cur[1].k)
            /\ UNCHANGED outcome
       ELSE /\ Finish("fault")     \* KeyError
            /\ UNCHANGED reg
    /\ UNCHANGED <<now, ticks, nextBot, readyQ, waiting, delivered, cmds, gw, mon,
                   sweeps, faults, closeCount, resets, confirms, muted, closeFailed,
                   cache, stats, db, note, loopUp, sd, threads, boot, cleared, lim>>

\* _maintain_bot_pool, lines 277-295: one creation is scheduled on the loop
\* when fewer than 3 pool keys remain; its key is fixed now
PoolLowAlways(r) == TRUE
PoolLow(r) == Len(PoolKeys(r)) < PoolFloor
Scheduled(r, id) ==
    IF PoolLow(r) THEN {CreateTask(id, PoolKey(NextIndex(r)))} ELSE {}

\* line 257: self.bots_dict[phone] = assigned_bot, then line 261:
\* self._maintain_bot_pool()
AssignedSlot(t) == t.slot
AssignInsert ==
    /\ Running("msg", "insert")
    /\ reg' = Put(reg, UserKey(cur[1].phone), AssignedSlot(cur[1]))
    /\ waiting' = waiting \cup Scheduled(reg', cur[1].id)
    /\ cur' = <<[cur[1] EXCEPT !.pc = "check", !.k = NoKey, !.slot = NoSlot]>>
    /\ UNCHANGED <<now, ticks, nextBot, readyQ, delivered, cmds, gw, mon, sweeps,
                   faults, outcome, closeCount, resets, confirms, muted,
                   closeFailed, cache, stats, db, note, loopUp, sd, threads, boot,
                   cleared, lim>>

\* line 206: if phone in self.bots_dict and self.bots_dict[phone][2]
IsActiveAlways(r, k) == TRUE
IsActive(r, k) == Get(r, k).active
ProcessCheckActive ==
    /\ Running("msg", "check")
    /\ IF ~Has(reg, UserKey(cur[1].phone))
       THEN Finish(IF cur[1].k = NoPool THEN "unassigned" ELSE "dropped")
       ELSE IF IsActive(reg, UserKey(cur[1].phone))
            THEN Goto("touch") /\ UNCHANGED outcome
            ELSE Finish("paused")
    /\ UNCHANGED <<reg, now, ticks, nextBot, readyQ, waiting, delivered, cmds, gw,
                   mon, sweeps, faults, closeCount, resets, confirms, muted,
                   closeFailed, cache, stats, db, note, loopUp, sd, threads, boot,
                   cleared, lim>>

\* line 208: self.bots_dict[phone][0] = time.time(), and line 218:
\* await get_chatbot_response(self.bots_dict[phone][1], ...): the agent is
\* read from the registry, the query starts and the coroutine suspends.
\* A key the monitor removed meanwhile is a KeyError that ends the coroutine.
Touch(r, k, t) == Put(r, k, [Get(r, k) EXCEPT !.ts = t])
ProcessQuery ==
    /\ Running("msg", "touch")
    /\ IF Has(reg, UserKey(cur[1].phone))
       THEN /\ reg' = Touch(reg, UserKey(cur[1].phone), now)
            /\ waiting' = waiting \cup
                 {[cur[1] EXCEPT !.pc = "await", !.k = NoKey,
                                   !.slot = NewSlot(0, Get(reg, UserKey(cur[1].phone)).bot)]}
            /\ cur' = <<>>
            /\ UNCHANGED outcome
       ELSE /\ Finish("fault")
            /\ UNCHANGED <<reg, waiting>>
    /\ UNCHANGED <<now, ticks, nextBot, readyQ, delivered, cmds, gw, mon, sweeps,
                   faults, closeCount, resets, confirms, muted, closeFailed, cache,
                   stats, db, note, loopUp, sd, threads, boot, cleared, lim>>

\* the agent answers (or raises): the suspended coroutine becomes ready again.
\* get_chatbot_response re-raises (handle_messages.py, lines 145-148) and the
\* exception ends the coroutine at the await of line 218: no statement of
\* _process_user_message runs after it, the slot stays as it is
Released(r, t) == Del(r, UserKey(t.phone))
Kept(r, t) == r
QueryDone(t, ok) ==
    /\ t \in waiting /\ t.kind = "msg" /\ t.pc = "await"
    /\ ok \/ faults < lim.faults
    /\ waiting' = waiting \ {t}
    /\ reg' = IF ok THEN reg ELSE Kept(reg, t)
    /\ IF ok
       THEN /\ readyQ' = Append(readyQ, [t EXCEPT !.pc = "send"])
            /\ UNCHANGED <<outcome, faults>>
       ELSE /\ readyQ' = readyQ
            /\ outcome' = [outcome EXCEPT ![t.id] = "qfail"]
            /\ faults' = faults + 1
    /\ UNCHANGED <<now, ticks, nextBot, cur, delivered, cmds, gw, mon, sweeps,
                   closeCount, resets, confirms, muted, closeFailed, cache, stats,
                   db, note, loopUp, sd, threads, boot, cleared, lim>>

\* lines 223-230: connector.send_message(phone, response); the bookkeeping
\* task is created and the coroutine ends
\* A send that raises ends the coroutine before line 227.
BookkeepingAnyway(t, sent) == IF lim.persist THEN <<PersistTask(t.id, t.phone)>> ELSE <<>>
Bookkeeping(t, sent) ==
    IF sent /\ lim.persist THEN <<PersistTask(t.id, t.phone)>> ELSE <<>>
ProcessSend(sent) ==
    /\ Ready("msg", "send")
    /\ sent \/ faults < lim.faults
    /\ faults' = IF sent THEN faults ELSE faults + 1
    /\ readyQ' = Tail(readyQ) \o Bookkeeping(Head(readyQ), sent)
    /\ outcome' = [outcome EXCEPT ![Head(readyQ).id] =
                                   IF sent THEN "replied" ELSE "sendfail"]
    /\ UNCHANGED <<reg, now, ticks, nextBot, cur, waiting, delivered, cmds, gw, mon,
                   sweeps, closeCount, resets, confirms, muted, closeFailed, cache,
                   stats, db, note, loopUp, sd, threads, boot, cleared, lim>>

\* _create_bot_async, line 317: await initialize(self.prompt) resolves
CreateDone(t, ok) ==
    /\ t \in waiting /\ t.kind = "create" /\ t.pc = "init"
    /\ ok \/ faults < lim.faults
    /\ waiting' = waiting \ {t}
    /\ IF ok
       THEN /\ readyQ' = Append(readyQ, [t EXCEPT !.pc = "store", !.slot = NewSlot(0, nextBot)])
            /\ nextBot' = nextBot + 1
            /\ UNCHANGED faults
       ELSE /\ faults' = faults + 1
            /\ UNCHANGED <<readyQ, nextBot>>
    /\ UNCHANGED <<reg, now, ticks, cur, delivered, cmds, gw, mon, sweeps, outcome,
                   closeCount, resets, confirms, muted, closeFailed, cache, stats,
                   db, note, loopUp, sd, threads, boot, cleared, lim>>

\* line 318: self.bots_dict[new_key] = [time.time(), bot_instance, True]
ReplenishedIdle(t, b) == [ts |-> t, bot |-> b, active |-> FALSE]
Replenished(t, b) == NewSlot(t, b)
CreateStore ==
    /\ Ready("create", "store")
    /\ readyQ' = Tail(readyQ)
    /\ reg' = Put(reg, Head(readyQ).k, Replenished(now, Head(readyQ).slot.bot))
    /\ UNCHANGED <<now, ticks, nextBot, cur, waiting, delivered, cmds, gw, mon,
                   sweeps, faults, outcome, closeCount, resets, confirms, muted,
                   closeFailed, cache, stats, db, note, loopUp, sd, threads, boot,
                   cleared, lim>>


\* ------------------------------------------------- bookkeeping coroutine
\* _handle_customer_data, lines 347-359: the cache is asked; on a hit the
\* coroutine goes on to save the messages (line 382), on a miss it awaits
\* supabase_connector.get_customers
CachedNever(c, p) == FALSE
Cached(c, p) == c[p] # 0
Count(st, f) == [st EXCEPT ![f] = @ + 1]
PersistLookup ==
    /\ Ready("persist", "cache")
    /\ readyQ' = Tail(readyQ)
    /\ LET t == Head(readyQ) IN
       IF Cached(cache, t.phone)
       THEN /\ stats' = Count(stats, "hits")
            /\ note' = [note EXCEPT ![t.id].lookup = "hit"]
            /\ waiting' = waiting \cup {[t EXCEPT !.pc = "saving", !.cid = cache[t.phone]]}
       ELSE /\ stats' = Count(stats, "misses")
            /\ note' = [note EXCEPT ![t.id].lookup = "miss", ![t.id].fetched = TRUE]
            /\ waiting' = waiting \cup {[t EXCEPT !.pc = "get"]}
    /\ UNCHANGED <<reg, now, ticks, nextBot, cur, delivered, cmds, gw, mon, sweeps,
                   faults, outcome, closeCount, resets, confirms, muted,
                   closeFailed, cache, db, loopUp, sd, threads, boot, cleared, lim>>

\* lines 398-399: except Exception as e: print(...); the task ends and what
\* the message got stays as it is
Unhandled(o, id) == [o EXCEPT ![id] = "error"]
Handled(o, id) == o

\* line 362: username = await connector.fetch_username_async(phone).  The
\* connector of src/src/evolution_ws.py defines fetch_username only; the
\* asynchronous variant is the gateway operation fetch_display_name of the
\* specification: the task is suspended until the name, or none, is there
FetchUsernameAsync(t) == [t EXCEPT !.pc = "add"]

\* lines 360-370: get_customers returns.  A customer found gives its id; none
\* found starts fetch_username_async and add_customers (lines 362-363); an
\* exception is caught at line 398 and ends the task.
GetDone(t, res) ==
    /\ t \in waiting /\ t.kind = "persist" /\ t.pc = "get"
    /\ res = "found" => db[t.phone] > 0
    /\ res = "none" => db[t.phone] = 0
    /\ res = "fail" => faults < lim.faults
    /\ faults' = IF res = "fail" THEN faults + 1 ELSE faults
    /\ waiting' = (waiting \ {t}) \cup
                     (IF res = "none" THEN {FetchUsernameAsync(t)} ELSE {})
    /\ readyQ' = IF res = "found"
                 THEN Append(readyQ, [t EXCEPT !.pc = "store", !.cid = 1])
                 ELSE readyQ
    /\ outcome' = IF res = "fail" THEN Handled(outcome, t.id) ELSE outcome
    /\ note' = IF res = "fail" THEN [note EXCEPT ![t.id].persist = "error"] ELSE note
    /\ UNCHANGED <<reg, now, ticks, nextBot, cur, delivered, cmds, gw, mon, sweeps,
                   closeCount, resets, confirms, muted, closeFailed, cache, stats,
                   db, loopUp, sd, threads, boot, cleared, lim>>

\* lines 362-366: the display name is fetched and add_customers returns: a
\* new row and its id, or no row, or an exception (caught at line 398)
AddDone(t, res) ==
    /\ t \in waiting /\ t.kind = "persist" /\ t.pc = "add"
    /\ res = "fail" => faults < lim.faults
    /\ faults' = IF res = "fail" THEN faults + 1 ELSE faults
    /\ waiting' = waiting \ {t}
    /\ db' = IF res = "row" THEN [db EXCEPT ![t.phone] = @ + 1] ELSE db
    /\ readyQ' = IF res = "fail" THEN readyQ
                 ELSE Append(readyQ, [t EXCEPT !.pc = "store",
                                        !.cid = IF res = "row" THEN db'[t.phone] ELSE 0])
    /\ outcome' = IF res = "fail" THEN Handled(outcome, t.id) ELSE outcome
    /\ note' = IF res = "fail" THEN [note EXCEPT ![t.id].persist = "error"] ELSE note
    /\ UNCHANGED <<reg, now, ticks, nextBot, cur, delivered, cmds, gw, mon, sweeps,
                   closeCount, resets, confirms, muted, closeFailed, cache, stats,
                   loopUp, sd, threads, boot, cleared, lim>>

\* lines 372-394: a customer_id is cached and the two messages are saved
\* (await asyncio.gather); without one nothing is saved
PersistStore ==
    /\ Ready("persist", "store")
    /\ readyQ' = Tail(readyQ)
    /\ LET t == Head(readyQ) IN
       IF t.cid # 0
       THEN /\ cache' = [cache EXCEPT ![t.phone] = t.cid]
            /\ waiting' = waiting \cup {[t EXCEPT !.pc = "saving"]}
            /\ UNCHANGED note
       ELSE /\ note' = [note EXCEPT ![t.id].persist = "nosave"]
            /\ UNCHANGED <<cache, waiting>>
    /\ UNCHANGED <<reg, now, ticks, nextBot, cur, delivered, cmds, gw, mon, sweeps,
                   faults, outcome, closeCount, resets, confirms, muted,
                   closeFailed, stats, db, loopUp, sd, threads, boot, cleared, lim>>

\* lines 382-396: gather(..., return_exceptions=True) returns whatever the two
\* saves did, the statistics are printed and the task ends
\* ok is FALSE when a save raised: save_message re-raises (handle_messages.py,
\* lines 104-106) and gather returns the exception as a value
SaveDone(t, ok) ==
    /\ t \in waiting /\ t.kind = "persist" /\ t.pc = "saving"
    /\ ok \/ faults < lim.faults
    /\ faults' = IF ok THEN faults ELSE faults + 1
    /\ waiting' = waiting \ {t}
    /\ note' = [note EXCEPT ![t.id].persist = IF ok THEN "saved" ELSE "unsaved"]
    /\ outcome' = IF ok THEN outcome ELSE Handled(outcome, t.id)
    /\ UNCHANGED <<reg, now, ticks, nextBot, readyQ, cur, delivered, cmds, gw, mon,
                   sweeps, closeCount, resets, confirms, muted, closeFailed, cache,
                   stats, db, loopUp, sd, threads, boot, cleared, lim>>

\* clear_customer_cache, lines 527-537: self.customer_cache.clear() and
\* self.cache_stats = {"hits": 0, "misses": 0}.  The method has no await and
\* cancels no task; whoever calls it, the two statements are one step here,
\* taken while bookkeeping tasks may be waiting for the database (the loop
\* thread blocked in query.execute()) or for the display name
NoStats == [hits |-> 0, misses |-> 0]
NothingCached == [p \in AllPhones |-> 0]
ClearCustomerCache ==
    /\ cleared < MaxClears
    /\ cleared' = cleared + 1
    /\ cache' = NothingCached
    /\ stats' = NoStats
    /\ UNCHANGED <<reg, now, ticks, nextBot, readyQ, cur, waiting, delivered, cmds,
                   gw, mon, sweeps, faults, outcome, closeCount, resets, confirms,
                   muted, closeFailed, db, note, loopUp, sd, threads, boot, lim>>

\* ------------------------------------------------------- gateway callback
\* the callback thread: idle, or inside the synchronous stretch of
\* handle_message for message id of caller phone
GwIdle == [pc |-> "idle", id |-> 0, phone |-> 0, k |-> NoKey, slot |-> NoSlot]

\* handle_message, line 155: if self.loop and self.loop.is_running()
BridgeAssumed == TRUE
BridgeRunning == loopUp

\* handle_message, lines 151-159: an inbound private message is scheduled on
\* the background loop
HandleMessage(p) ==
    /\ gw.pc = "idle"
    /\ BridgeRunning
    /\ delivered < lim.msgs
    /\ delivered' = delivered + 1
    /\ readyQ' = Append(readyQ, MsgTask(delivered + 1, p, p \in muted))
    /\ UNCHANGED <<reg, now, ticks, nextBot, cur, waiting, cmds, gw, mon, sweeps,
                   faults, outcome, closeCount, resets, confirms, muted,
                   closeFailed, cache, stats, db, note, loopUp, sd, threads, boot,
                   cleared, lim>>

\* _start_async_loop, lines 47-55: the loop thread reaches run_forever
LoopStart ==
    /\ ~loopUp
    /\ loopUp' = TRUE
    /\ UNCHANGED <<reg, now, ticks, nextBot, readyQ, cur, waiting, delivered, cmds,
                   gw, mon, sweeps, faults, outcome, closeCount, resets, confirms,
                   muted, closeFailed, cache, stats, db, note, sd, threads, boot,
                   cleared, lim>>

\* handle_message, lines 160-164: the loop is not running; the warning is
\* printed and the caller is looked up on the callback thread, then
\* _assign_bot_to_user, lines 251-253
FallbackStart(p) ==
    /\ gw.pc = "idle"
    /\ ~BridgeRunning
    /\ delivered < lim.msgs
    /\ delivered' = delivered + 1
    /\ note' = [note EXCEPT ![delivered + 1].warned = TRUE]
    /\ gw' = IF NeedsBot(reg, p) /\ PoolKeys(reg) # <<>>
             THEN [GwIdle EXCEPT !.pc = "pop", !.id = delivered + 1, !.phone = p,
                                 !.k = FirstExtra(reg)]
             ELSE [GwIdle EXCEPT !.pc = "check", !.id = delivered + 1, !.phone = p,
                                 !.k = IF NeedsBot(reg, p) THEN NoPool ELSE NoKey]
    /\ UNCHANGED <<reg, now, ticks, nextBot, readyQ, cur, waiting, cmds, mon,
                   sweeps, faults, outcome, closeCount, resets, confirms, muted,
                   closeFailed, cache, stats, db, loopUp, sd, threads, boot,
                   cleared, lim>>

\* the callback returns, or an exception leaves it
GwFinish(what) ==
    /\ gw' = GwIdle
    /\ outcome' = [outcome EXCEPT ![gw.id] = what]

\* line 254 on the callback thread
FallbackPop ==
    /\ gw.pc = "pop"
    /\ IF Has(reg, gw.k)
       THEN /\ gw' = [gw EXCEPT !.pc = "insert", !.slot = Get(reg, gw.k)]
            /\ reg' = Del(reg, gw.k)
            /\ UNCHANGED outcome
       ELSE /\ GwFinish("fault")
            /\ UNCHANGED reg
    /\ UNCHANGED <<now, ticks, nextBot, readyQ, cur, waiting, delivered, cmds, mon,
                   sweeps, faults, closeCount, resets, confirms, muted, closeFailed,
                   cache, stats, db, note, loopUp, sd, threads, boot, cleared, lim>>

\* line 257, then _maintain_bot_pool, lines 277-292: with the loop still down
\* the creation is run on this thread (asyncio.run blocks until initialize
\* returns); the key and the timestamp are fixed before it starts
FallbackInsert ==
    /\ gw.pc = "insert"
    /\ reg' = Put(reg, UserKey(gw.phone), gw.slot)
    /\ IF ~PoolLow(reg')
       THEN /\ gw' = [gw EXCEPT !.pc = "check", !.k = NoKey, !.slot = NoSlot]
            /\ UNCHANGED waiting
       ELSE IF BridgeRunning
            THEN /\ waiting' = waiting \cup Scheduled(reg', gw.id)
                 /\ gw' = [gw EXCEPT !.pc = "check", !.k = NoKey, !.slot = NoSlot]
            ELSE /\ gw' = [gw EXCEPT !.pc = "create", !.k = PoolKey(NextIndex(reg')),
                                     !.slot = NewSlot(now, 0)]
                 /\ UNCHANGED waiting
    /\ UNCHANGED <<now, ticks, nextBot, readyQ, cur, delivered, cmds, mon, sweeps,
                   faults, outcome, closeCount, resets, confirms, muted,
                   closeFailed, cache, stats, db, note, loopUp, sd, threads, boot,
                   cleared, lim>>

\* line 292: initialize returns and the new slot is stored, or it raises and
\* the exception leaves handle_message
CreatedNowhere(r, k, t, b) == r
Created(r, k, t, b) == Put(r, k, NewSlot(t, b))
FallbackCreated(ok) ==
    /\ gw.pc = "create"
    /\ ok \/ faults < lim.faults
    /\ IF ok
       THEN /\ reg' = Created(reg, gw.k, gw.slot.ts, nextBot)
            /\ nextBot' = nextBot + 1
            /\ gw' = [gw EXCEPT !.pc = "check", !.k = NoKey, !.slot = NoSlot]
            /\ UNCHANGED <<faults, outcome>>
       ELSE /\ faults' = faults + 1
            /\ GwFinish("fault")
            /\ UNCHANGED <<reg, nextBot>>
    /\ UNCHANGED <<now, ticks, readyQ, cur, waiting, delivered, cmds, mon, sweeps,
                   closeCount, resets, confirms, muted, closeFailed, cache, stats,
                   db, note, loopUp, sd, threads, boot, cleared, lim>>

\* line 166: if phone in self.bots_dict and self.bots_dict[phone][2]
FallbackCheckActive ==
    /\ gw.pc = "check"
    /\ IF ~Has(reg, UserKey(gw.phone))
       THEN GwFinish(IF gw.k = NoPool THEN "unassigned" ELSE "dropped")
       ELSE IF IsActive(reg, UserKey(gw.phone))
            THEN gw' = [gw EXCEPT !.pc = "touch"] /\ UNCHANGED outcome
            ELSE GwFinish("paused")
    /\ UNCHANGED <<reg, now, ticks, nextBot, readyQ, cur, waiting, delivered, cmds,
                   mon, sweeps, faults, closeCount, resets, confirms, muted,
                   closeFailed, cache, stats, db, note, loopUp, sd, threads, boot,
                   cleared, lim>>

\* lines 167-170: the timestamp is refreshed, the agent is read and
\* asyncio.run(get_chatbot_response(...)) blocks the callback thread
FallbackQuery ==
    /\ gw.pc = "touch"
    /\ IF Has(reg, UserKey(gw.phone))
       THEN /\ reg' = Touch(reg, UserKey(gw.phone), now)
            /\ gw' = [gw EXCEPT !.pc = "query",
                                !.slot = NewSlot(0, Get(reg, UserKey(gw.phone)).bot)]
            /\ UNCHANGED outcome
       ELSE /\ GwFinish("fault")
            /\ UNCHANGED reg
    /\ UNCHANGED <<now, ticks, nextBot, readyQ, cur, waiting, delivered, cmds, mon,
                   sweeps, faults, closeCount, resets, confirms, muted, closeFailed,
                   cache, stats, db, note, loopUp, sd, threads, boot, cleared, lim>>

\* lines 170-173: the agent answers and connector.send_message is called;
\* either may raise, which ends the callback without the closing notice
FallbackSend(res) ==
    /\ gw.pc = "query"
    /\ res = "sent" \/ faults < lim.faults
    /\ faults' = IF res = "sent" THEN faults ELSE faults + 1
    /\ GwFinish(CASE res = "sent" -> "replied"
                  [] res = "raise" -> "qfail"
                  [] OTHER -> "sendfail")
    /\ UNCHANGED <<reg, now, ticks, nextBot, readyQ, cur, waiting, delivered, cmds,
                   mon, sweeps, closeCount, resets, confirms, muted, closeFailed,
                   cache, stats, db, note, loopUp, sd, threads, boot, cleared, lim>>

\* _process_bot_command, lines 421-430: '/start' sets active and confirms,
\* any other self-sent text clears it; a phone without a slot is ignored
SetInactive(r, k, a) == Put(r, k, [Get(r, k) EXCEPT !.active = FALSE])
SetActive(r, k, a) == Put(r, k, [Get(r, k) EXCEPT !.active = a])
ProcessBotCommand(p, start) ==
    /\ gw.pc = "idle"
    /\ cmds < lim.cmds
    /\ cmds' = cmds + 1
    /\ IF Has(reg, UserKey(p))
       THEN /\ reg' = SetActive(reg, UserKey(p), start)
            /\ confirms' = IF start THEN [confirms EXCEPT ![p] = @ + 1] ELSE confirms
            /\ muted' = IF start THEN muted \ {p} ELSE muted \cup {p}
       ELSE /\ UNCHANGED <<reg, confirms>>
            /\ muted' = IF start THEN muted \ {p} ELSE muted
    /\ UNCHANGED <<now, ticks, nextBot, readyQ, cur, waiting, delivered, gw, mon,
                   sweeps, faults, outcome, closeCount, resets, closeFailed, cache,
                   stats, db, note, loopUp, sd, threads, boot, cleared, lim>>

\* ------------------------------------------------------------ the monitor
MonIdle == [pc |-> "sleep", current_time |-> 0, count |-> 0, scanLen |-> 0,
            seen |-> {}, remove |-> <<>>, convert |-> <<>>,
            key |-> NoKey, bot |-> 0, new_key |-> NoKey]

\* lines 452-463: current_time, the count of assigned bots, and the iterator
\* over self.bots_dict.items(), which remembers the size of the dict
AssignedBotCount(r) == Len(UserKeys(r))
MonitorStart ==
    /\ threads > 0
    /\ mon.pc = "sleep"
    /\ sweeps < lim.sweeps
    /\ sweeps' = sweeps + 1
    /\ mon' = [MonIdle EXCEPT !.pc = "scan", !.current_time = now,
                              !.count = AssignedBotCount(reg),
                              !.scanLen = Len(reg)]
    /\ UNCHANGED <<reg, now, ticks, nextBot, readyQ, cur, waiting, delivered, cmds,
                   gw, faults, outcome, closeCount, resets, confirms, muted,
                   closeFailed, cache, stats, db, note, loopUp, sd, threads, boot,
                   cleared, lim>>

\* lines 463-490: one iteration of the scan.  The dict iterator raises
\* RuntimeError when the size changed since it was created, or when it finds
\* an item after it has yielded as many as the dict held when it was created;
\* nothing in the thread catches it.  On the close path asyncio.run(bot_instance.close())
\* runs here (whatever it raises is caught) and the key is marked for removal.
Unseen(r, seen) == SelectSeq(r, LAMBDA e : e.key \notin seen)
IsInactive(current_time, ts) == current_time - ts > inactive_threshold
\* lines 477-482: try: asyncio.run(bot_instance.close()) except Exception:
\* the error is printed and the scan goes on
CloseReturns(b, ok) ==
    /\ ok \/ faults < lim.faults
    /\ closeFailed' = IF ok THEN closeFailed ELSE closeFailed \cup {b}
    /\ faults' = IF ok THEN faults ELSE faults + 1
MustCloseLive(count) == AssignedBotCount(reg) > CloseLimit
MustClose(count) == count > CloseLimit
MonitorScan ==
    /\ mon.pc = "scan"
    /\ IF Len(reg) # mon.scanLen
       THEN mon' = [MonIdle EXCEPT !.pc = "dead"]
            /\ UNCHANGED <<closeCount, closeFailed, faults>>
       ELSE IF Unseen(reg, mon.seen) = <<>>
       THEN /\ mon' = [mon EXCEPT !.pc = "remove", !.seen = {}, !.scanLen = 0]
            /\ UNCHANGED <<closeCount, closeFailed, faults>>
       ELSE IF Cardinality(mon.seen) >= mon.scanLen
       THEN mon' = [MonIdle EXCEPT !.pc = "dead"]
            /\ UNCHANGED <<closeCount, closeFailed, faults>>
       ELSE LET e == Head(Unseen(reg, mon.seen))
                m == [mon EXCEPT !.seen = @ \cup {e.key}]
            IN  IF ~IsPool(e.key) /\ IsInactive(mon.current_time, e.ts)
                THEN IF MustClose(mon.count)
                     THEN /\ closeCount' = [closeCount EXCEPT ![e.bot] = @ + 1]
                          /\ mon' = [m EXCEPT !.remove = Append(@, e.key)]
                          /\ \E ok \in BOOLEAN : CloseReturns(e.bot, ok)
                     ELSE /\ mon' = [m EXCEPT !.convert = Append(@, e.key)]
                          /\ UNCHANGED <<closeCount, closeFailed, faults>>
                ELSE mon' = m /\ UNCHANGED <<closeCount, closeFailed, faults>>
    /\ UNCHANGED <<reg, now, ticks, nextBot, readyQ, cur, waiting, delivered, cmds,
                   gw, sweeps, outcome, resets, confirms, muted, cache, stats, db,
                   note, loopUp, sd, threads, boot, cleared, lim>>

\* lines 493-496: for key in bots_to_remove: if key in d: del d[key]
MonitorRemove ==
    /\ mon.pc = "remove"
    /\ IF mon.remove = <<>>
       THEN mon' = [mon EXCEPT !.pc = "convert"] /\ UNCHANGED reg
       ELSE /\ reg' = Del(reg, Head(mon.remove))
            /\ mon' = [mon EXCEPT !.remove = Tail(@)]
    /\ UNCHANGED <<now, ticks, nextBot, readyQ, cur, waiting, delivered, cmds, gw,
                   sweeps, faults, outcome, closeCount, resets, confirms, muted,
                   closeFailed, cache, stats, db, note, loopUp, sd, threads, boot,
                   cleared, lim>>

\* lines 499-506: for key in bots_to_convert: if key in d: bot_data = d[key],
\* and asyncio.run(self._send_new_conversation_signal(bot_instance)) starts on
\* the monitor thread; after the last key the sweep is over (time.sleep(30))
Unsignalled(rs, b) == rs
Signalled(rs, b) == [rs EXCEPT ![b] = @ + 1]
MonitorConvert ==
    /\ mon.pc = "convert"
    /\ IF mon.convert = <<>> THEN mon' = MonIdle /\ UNCHANGED resets
       ELSE IF Has(reg, Head(mon.convert))
       THEN /\ mon' = [mon EXCEPT !.pc = "signalling", !.key = Head(mon.convert),
                                  !.bot = Get(reg, Head(mon.convert)).bot]
            /\ resets' = Signalled(resets, Get(reg, Head(mon.convert)).bot)
       ELSE mon' = [mon EXCEPT !.convert = Tail(@)] /\ UNCHANGED resets
    /\ UNCHANGED <<reg, now, ticks, nextBot, readyQ, cur, waiting, delivered, cmds,
                   gw, sweeps, faults, outcome, closeCount, confirms, muted,
                   closeFailed, cache, stats, db, note, loopUp, sd, threads, boot,
                   cleared, lim>>

\* the signal returns (an exception is caught, lines 508-509), then
\* lines 512-517: the next A key
MonitorNewKey ==
    /\ mon.pc = "signalling"
    /\ mon' = [mon EXCEPT !.pc = "store", !.new_key = PoolKey(NextIndex(reg))]
    /\ UNCHANGED <<reg, now, ticks, nextBot, readyQ, cur, waiting, delivered, cmds,
                   gw, sweeps, faults, outcome, closeCount, resets, confirms, muted,
                   closeFailed, cache, stats, db, note, loopUp, sd, threads, boot,
                   cleared, lim>>

\* line 520: self.bots_dict[new_key] = [time.time(), bot_instance, True]
RecycledAsWas(m, t) == [Get(reg, m.key) EXCEPT !.bot = m.bot]
Recycled(m, t) == NewSlot(t, m.bot)
MonitorStore ==
    /\ mon.pc = "store"
    /\ reg' = Put(reg, mon.new_key, Recycled(mon, now))
    /\ mon' = [mon EXCEPT !.pc = "del"]
    /\ UNCHANGED <<now, ticks, nextBot, readyQ, cur, waiting, delivered, cmds, gw,
                   sweeps, faults, outcome, closeCount, resets, confirms, muted,
                   closeFailed, cache, stats, db, note, loopUp, sd, threads, boot,
                   cleared, lim>>

\* line 521: del self.bots_dict[key]
MonitorDel ==
    /\ mon.pc = "del"
    /\ reg' = Del(reg, mon.key)
    /\ mon' = [mon EXCEPT !.pc = "convert", !.convert = Tail(@), !.key = NoKey,
                          !.bot = 0, !.new_key = NoKey]
    /\ UNCHANGED <<now, ticks, nextBot, readyQ, cur, waiting, delivered, cmds, gw,
                   sweeps, faults, outcome, closeCount, resets, confirms, muted,
                   closeFailed, cache, stats, db, note, loopUp, sd, threads, boot,
                   cleared, lim>>

\* remoteJid.split('@')[1] == "s.whatsapp.net" (lines 153 and 421): private
\* chats; groups end in g.us, broadcasts in broadcast
Domains == {"s.whatsapp.net", "g.us", "broadcast"}
IsPrivateAny(d) == TRUE
IsPrivate(d) == d = "s.whatsapp.net"

\* handle_message, lines 151-175, for any event of the gateway: self-sent
\* events go to _process_bot_command, the others are scheduled on the loop,
\* both only for a private chat; for any other chat neither branch has an
\* else and the callback returns.  The event takes the next message number
\* (bookkeeping of the model).
IgnoreEvent ==
    /\ gw.pc = "idle"
    /\ delivered < lim.msgs
    /\ delivered' = delivered + 1
    /\ outcome' = [outcome EXCEPT ![delivered + 1] = "ignored"]
    /\ UNCHANGED <<reg, now, ticks, nextBot, readyQ, cur, waiting, cmds, gw, mon,
                   sweeps, faults, closeCount, resets, confirms, muted, closeFailed,
                   cache, stats, db, note, loopUp, sd, threads, boot, cleared, lim>>

HandleEvent(fromMe, p, d, start) ==
    IF IsPrivate(d)
    THEN IF fromMe THEN ProcessBotCommand(p, start) ELSE HandleMessage(p)
    ELSE IgnoreEvent

\* start_monitoring, lines 122-126, called by the main thread: a thread is
\* started unless the flag is set
AlreadyMonitoringNever == FALSE
AlreadyMonitoring == sd.monitoring_active
StartMonitoring ==
    /\ boot.pc \in {"monitor", "listening"}
    /\ sd.pc = "off"
    /\ threads < MaxThreads
    /\ IF AlreadyMonitoring
       THEN UNCHANGED <<threads, sd>>
       ELSE /\ threads' = threads + 1
            /\ sd' = [sd EXCEPT !.monitoring_active = TRUE]
    /\ UNCHANGED <<reg, now, ticks, nextBot, readyQ, cur, waiting, delivered, cmds,
                   gw, mon, sweeps, faults, outcome, closeCount, resets, confirms,
                   muted, closeFailed, cache, stats, db, note, loopUp, boot,
                   cleared, lim>>

\* --------------------------------------------------------- signal handler
\* monitoring_active: BotManager._monitoring_active, set by start_monitoring
\* (line 125) before any message is received; scanLen, seen: the iterator over
\* bot_manager.bots_dict.items(); attempted: the agents whose close was called
SdOff == [pc |-> "off", monitoring_active |-> TRUE, scanLen |-> 0, seen |-> {},
          attempted |-> {}]
Exited == sd.pc = "exited"

\* signal_handler, lines 36-49: the flag is cleared and the iteration over the
\* registry begins
ShutdownBegin ==
    /\ sd.pc = "off"
    /\ sd' = [sd EXCEPT !.pc = "closing", !.monitoring_active = FALSE,
                        !.scanLen = Len(reg)]
    /\ UNCHANGED <<reg, now, ticks, nextBot, readyQ, cur, waiting, delivered, cmds,
                   gw, mon, sweeps, faults, outcome, closeCount, resets, confirms,
                   muted, closeFailed, cache, stats, db, note, loopUp, threads,
                   boot, cleared, lim>>

\* lines 49-55: one iteration; whatever close raises is caught inside the
\* loop, but the RuntimeError of the dict iterator is raised by the for
\* statement itself and is caught at line 68 only, past the executor and the
\* remaining agents
ShutdownClose ==
    /\ sd.pc = "closing"
    /\ IF Len(reg) # sd.scanLen
       THEN sd' = [sd EXCEPT !.pc = "failed"]
            /\ UNCHANGED <<closeCount, closeFailed, faults>>
       ELSE IF Unseen(reg, sd.seen) = <<>>
       THEN sd' = [sd EXCEPT !.pc = "closed"]
            /\ UNCHANGED <<closeCount, closeFailed, faults>>
       ELSE IF Cardinality(sd.seen) >= sd.scanLen
       THEN sd' = [sd EXCEPT !.pc = "failed"]
            /\ UNCHANGED <<closeCount, closeFailed, faults>>
       ELSE LET e == Head(Unseen(reg, sd.seen)) IN
            /\ sd' = [sd EXCEPT !.seen = @ \cup {e.key},
                                !.attempted = @ \cup {e.bot}]
            /\ closeCount' = [closeCount EXCEPT ![e.bot] = @ + 1]
            /\ \E ok \in BOOLEAN : CloseReturns(e.bot, ok)
    /\ UNCHANGED <<reg, now, ticks, nextBot, readyQ, cur, waiting, delivered, cmds,
                   gw, mon, sweeps, outcome, resets, confirms, muted, cache, stats,
                   db, note, loopUp, threads, boot, cleared, lim>>

\* lines 57-75: executor.shutdown(wait=True), the websocket is disconnected
\* and sys.exit(0) ends the process with its daemon threads, the background
\* loop among them
ShutdownExit ==
    /\ sd.pc \in {"closed", "failed"}
    /\ sd' = [sd EXCEPT !.pc = "exited"]
    /\ UNCHANGED <<reg, now, ticks, nextBot, readyQ, cur, waiting, delivered, cmds,
                   gw, mon, sweeps, faults, outcome, closeCount, resets, confirms,
                   muted, closeFailed, cache, stats, db, note, loopUp, threads,
                   boot, cleared, lim>>

\* ------------------------------------------------------------------ clock
Tick ==
    /\ ticks < lim.ticks
    /\ ticks' = ticks + 1
    /\ now' = now + inactive_threshold + 1
    /\ UNCHANGED <<reg, nextBot, readyQ, cur, waiting, delivered, cmds, gw, mon,
                   sweeps, faults, outcome, closeCount, resets, confirms, muted,
                   closeFailed, cache, stats, db, note, loopUp, sd, threads, boot,
                   cleared, lim>>

\* ---------------------------------------------------------- specification
\* _initialize_bot_pool, lines 79-83: A1, A2, A3
InitialRegistry == [i \in 1..InitialPool |-> Entry(PoolKey(i), NewSlot(0, i))]

\* persist: whether the run follows the bookkeeping tasks, which never read
\* or write the registry
Limits(m, c, tk, sw, fl, ps) ==
    [msgs |-> m, cmds |-> c, ticks |-> tk, sweeps |-> sw, faults |-> fl,
     persist |-> ps]

\* the state BotManager.__init__ leaves, lines 26-37
\* ---------------------------------------------------------------- startup
\* os.getenv of each credential: TRUE when it is set to a non-empty value
Supabase == {"SUPABASE_URL", "SUPABASE_ANON_KEY"}
Evolution == {"EVOLUTION_API_URL", "EVOLUTION_API_KEY", "EVOLUTION_API_INSTANCE"}
Credentials == Supabase \cup Evolution
\* pc: "import" (the imports of main.py), "connector" (main, line 117),
\* "manager" (line 125), "monitor" (line 128), "listening" (line 141),
\* "failed" (an exception ended the start)
Booted == [pc |-> "listening", env |-> [c \in Credentials |-> TRUE]]

\* supabase_connector.py, lines 12-21, run when main.py imports evolution_ws
\* (which imports supabase_connector): ValueError unless both are set
HasSupabase(env) == \A c \in Supabase : env[c]
ImportModules ==
    /\ boot.pc = "import"
    /\ boot' = [boot EXCEPT !.pc = IF HasSupabase(boot.env) THEN "connector" ELSE "failed"]
    /\ UNCHANGED <<reg, now, ticks, nextBot, readyQ, cur, waiting, delivered, cmds,
                   gw, mon, sweeps, faults, outcome, closeCount, resets, confirms,
                   muted, closeFailed, cache, stats, db, note, loopUp, sd, threads,
                   cleared, lim>>

\* EvolutionConnector.__init__, lines 41-51: ValueError unless the three are
\* set
HasEvolutionLax(env) == env["EVOLUTION_API_URL"] /\ env["EVOLUTION_API_KEY"]
HasEvolution(env) == \A c \in Evolution : env[c]
CreateConnector ==
    /\ boot.pc = "connector"
    /\ boot' = [boot EXCEPT !.pc = IF HasEvolution(boot.env) THEN "manager" ELSE "failed"]
    /\ UNCHANGED <<reg, now, ticks, nextBot, readyQ, cur, waiting, delivered, cmds,
                   gw, mon, sweeps, faults, outcome, closeCount, resets, confirms,
                   muted, closeFailed, cache, stats, db, note, loopUp, sd, threads,
                   cleared, lim>>

\* main, line 125: BotManager(prompt) starts the loop thread, waits 0.1 s and
\* fills the pool (the loop not running yet after the wait is FallbackSpec)
CreateManager ==
    /\ boot.pc = "manager"
    /\ boot' = [boot EXCEPT !.pc = "monitor"]
    /\ loopUp' = TRUE
    /\ reg' = InitialRegistry
    /\ nextBot' = InitialPool + 1
    /\ UNCHANGED <<now, ticks, readyQ, cur, waiting, delivered, cmds, gw, mon,
                   sweeps, faults, outcome, closeCount, resets, confirms, muted,
                   closeFailed, cache, stats, db, note, sd, threads, cleared, lim>>

\* main, line 141: connector.start_listening(handle_message)
StartListening ==
    /\ boot.pc = "monitor"
    /\ threads > 0
    /\ boot' = [boot EXCEPT !.pc = "listening"]
    /\ UNCHANGED <<reg, now, ticks, nextBot, readyQ, cur, waiting, delivered, cmds,
                   gw, mon, sweeps, faults, outcome, closeCount, resets, confirms,
                   muted, closeFailed, cache, stats, db, note, loopUp, sd, threads,
                   cleared, lim>>

\* main.py, line 128: start_monitoring has been called once
Monitoring ==
    /\ sd = SdOff
    /\ threads = 1
    /\ boot = Booted

Quiet ==
    /\ ticks = 0
    /\ readyQ = <<>>
    /\ cur = <<>>
    /\ waiting = {}
    /\ delivered = 0
    /\ cmds = 0
    /\ gw = GwIdle
    /\ mon = MonIdle
    /\ sweeps = 0
    /\ faults = 0
    /\ outcome = [i \in MsgIds |-> "none"]
    /\ closeCount = [b \in Bots |-> 0]
    /\ resets = [b \in Bots |-> 0]
    /\ confirms = [p \in AllPhones |-> 0]
    /\ muted = {}
    /\ cleared = 0
    /\ note = [i \in MsgIds |-> NoNote]
    /\ stats = [hits |-> 0, misses |-> 0]
    /\ cache = [p \in AllPhones |-> 0]
    /\ closeFailed = {}

NoCustomers == [p \in AllPhones |-> 0]
Constructed ==
    /\ reg = InitialRegistry
    /\ db = NoCustomers
    /\ now = 0
    /\ nextBot = InitialPool + 1
    /\ Quiet
    /\ Monitoring
    /\ loopUp = TRUE

Init ==
    /\ Constructed
    /\ lim = Limits(MaxMsgs, MaxCmds, MaxTicks, MaxSweeps, MaxFaults, FALSE)

InitDraw ==
    /\ Constructed
    /\ lim = Limits(DrawMsgs, 0, 0, 0, 0, FALSE)

LoopNext ==
    \/ ProcessCheckAssigned
    \/ AssignPop
    \/ AssignInsert
    \/ ProcessCheckActive
    \/ ProcessQuery
    \/ \E sent \in BOOLEAN : ProcessSend(sent)
    \/ CreateStore

AgentNext ==
    \/ \E t \in waiting, ok \in BOOLEAN : QueryDone(t, ok)
    \/ \E t \in waiting, ok \in BOOLEAN : CreateDone(t, ok)

\* callers are interchangeable: they are numbered as they first write
GatewayNext ==
    \/ \E p \in Phones : p <= delivered + 1 /\ HandleMessage(p)
    \/ \E p \in Phones, start \in BOOLEAN : ProcessBotCommand(p, start)

MonitorNext ==
    \/ MonitorStart
    \/ MonitorScan
    \/ MonitorRemove
    \/ MonitorConvert
    \/ MonitorNewKey
    \/ MonitorStore
    \/ MonitorDel

Next == LoopNext \/ AgentNext \/ GatewayNext \/ MonitorNext \/ Tick

Spec == Init /\ [][Next]_vars

\* new callers only: the loop thread, the agents and inbound messages
NextDraw ==
    \/ LoopNext
    \/ AgentNext
    \/ \E p \in DrawPhones : p <= delivered + 1 /\ HandleMessage(p)

DrawSpec == InitDraw /\ [][NextDraw]_vars

\* a registry after n callers wrote once at time 0, one after the other, each
\* replenishment done before the next caller: the draw (lines 253-257), the
\* timestamp (line 208) and the insert of the new pool slot (line 318)
FirstWrite(r, p) ==
    LET k == FirstExtra(r)
        r1 == Put(Del(r, k), UserKey(p), Get(r, k))
        r2 == Touch(r1, UserKey(p), 0)
    IN  Put(r2, PoolKey(NextIndex(r1)), NewSlot(0, InitialPool + p))
RECURSIVE AfterCallers(_, _, _)
AfterCallers(r, p, n) ==
    IF p > n \/ PoolKeys(r) = <<>> THEN r
    ELSE AfterCallers(FirstWrite(r, p), p + 1, n)
BusyRegistry(n) == AfterCallers(InitialRegistry, 1, n)

\* more than 20 minutes later: every caller is idle, the monitor has yet to run
InitSweep ==
    /\ db = NoCustomers
    /\ \E n \in BusyCounts :
          /\ reg = BusyRegistry(n)
          /\ nextBot = InitialPool + n + 1
    /\ now = inactive_threshold + 1
    /\ Quiet
    /\ Monitoring
    /\ loopUp = TRUE
    /\ lim = Limits(SweepMsgs, 0, 0, MaxSweeps, MaxFaults, FALSE)

NextSweep ==
    \/ LoopNext
    \/ AgentNext
    \/ \E p \in SweepPhones : HandleMessage(p)
    \/ MonitorNext

SweepSpec == InitSweep /\ [][NextSweep]_vars

\* the same runs with every thread scheduled again and again: the monitor
\* thread (time.sleep(30) returns), the loop thread, and agents that answer
FairSweepSpec ==
    /\ SweepSpec
    /\ WF_vars(MonitorNext)
    /\ WF_vars(LoopNext)
    /\ WF_vars(AgentNext)

\* the bookkeeping runs: callers write, every reply is followed by its
\* bookkeeping task; the first caller may already be a customer
InitPersist ==
    /\ reg = InitialRegistry
    /\ now = 0
    /\ nextBot = InitialPool + 1
    /\ db \in {NoCustomers, [NoCustomers EXCEPT ![1] = 1]}
    /\ Quiet
    /\ Monitoring
    /\ loopUp = TRUE
    /\ lim = Limits(PersistMsgs, 0, 0, 0, MaxFaults, TRUE)

BookkeepingNext ==
    \/ PersistLookup
    \/ PersistStore
    \/ \E t \in waiting, res \in {"found", "none", "fail"} : GetDone(t, res)
    \/ \E t \in waiting, res \in {"row", "empty", "fail"} : AddDone(t, res)
    \/ \E t \in waiting, ok \in BOOLEAN : SaveDone(t, ok)

NextPersist ==
    \/ LoopNext
    \/ AgentNext
    \/ \E p \in Phones : p <= delivered + 1 /\ HandleMessage(p)
    \/ BookkeepingNext

PersistSpec == InitPersist /\ [][NextPersist]_vars

\* ------------------------------------------- the cache is cleared
InitClear ==
    /\ reg = InitialRegistry
    /\ now = 0
    /\ nextBot = InitialPool + 1
    /\ db \in {NoCustomers, [NoCustomers EXCEPT ![1] = 1]}
    /\ Quiet
    /\ Monitoring
    /\ loopUp = TRUE
    /\ lim = Limits(ClearMsgs, 0, 0, 0, 0, TRUE)

NextClear ==
    \/ LoopNext
    \/ AgentNext
    \/ \E p \in Phones : p <= delivered + 1 /\ HandleMessage(p)
    \/ BookkeepingNext
    \/ ClearCustomerCache

ClearSpec == InitClear /\ [][NextClear]_vars

\* ------------------------------------------------- events of any chat
InitEvent ==
    /\ Constructed
    /\ lim = Limits(EventMsgs, EventCmds, 0, 0, 0, TRUE)

NextEvent ==
    \/ LoopNext
    \/ AgentNext
    \/ BookkeepingNext
    \/ \E fromMe, start \in BOOLEAN, p \in Phones, d \in Domains :
          p <= delivered + 1 /\ HandleEvent(fromMe, p, d, start)

EventSpec == InitEvent /\ [][NextEvent]_vars

\* ------------------------------------------------------------- shutdown
InitShutdown ==
    /\ Constructed
    /\ lim = Limits(ShutdownMsgs, 0, MaxTicks, MaxSweeps, MaxFaults, FALSE)

ShutdownNext ==
    \/ ShutdownBegin
    \/ ShutdownClose
    \/ ShutdownExit

\* nothing runs once the process has exited
Alive ==
    \/ LoopNext
    \/ AgentNext
    \/ \E p \in Phones : p <= delivered + 1 /\ HandleMessage(p)
    \/ MonitorNext
    \/ Tick

NextShutdown == (~Exited /\ Alive) \/ ShutdownNext

ShutdownSpec == InitShutdown /\ [][NextShutdown]_vars

\* ------------------------------------------------------ start of the monitor
\* __init__, line 28: the flag is clear until start_monitoring is called
InitStart ==
    /\ reg = InitialRegistry
    /\ db = NoCustomers
    /\ now = 0
    /\ nextBot = InitialPool + 1
    /\ Quiet
    /\ loopUp = TRUE
    /\ sd = [SdOff EXCEPT !.monitoring_active = FALSE]
    /\ threads = 0
    /\ boot = [Booted EXCEPT !.pc = "monitor"]
    /\ lim = Limits(ShutdownMsgs, 0, MaxTicks, MaxSweeps, 0, FALSE)

NextStart == StartMonitoring \/ (~Exited /\ Alive) \/ ShutdownNext

StartSpec == InitStart /\ [][NextStart]_vars

\* ---------------------------------------------------------------- startup
InitStartup ==
    /\ reg = <<>>
    /\ db = NoCustomers
    /\ now = 0
    /\ nextBot = 1
    /\ Quiet
    /\ loopUp = FALSE
    /\ sd = [SdOff EXCEPT !.monitoring_active = FALSE]
    /\ threads = 0
    /\ boot \in [pc : {"import"}, env : [Credentials -> BOOLEAN]]
    /\ lim = Limits(StartupMsgs, 0, MaxTicks, MaxSweeps, 0, FALSE)

BootNext ==
    \/ ImportModules
    \/ CreateConnector
    \/ CreateManager
    \/ boot.pc = "monitor" /\ StartMonitoring
    \/ StartListening

Listening == boot.pc = "listening"

NextStartup == BootNext \/ (Listening /\ Alive)

StartupSpec == InitStartup /\ [][NextStartup]_vars

\* ---------------------------------------------- messages before the loop
\* BotManager() returns 0.1 s after the loop thread was started (lines 57-61);
\* the loop may not be running yet when the first messages arrive
InitFallback ==
    /\ reg = InitialRegistry
    /\ db = NoCustomers
    /\ now = 0
    /\ nextBot = InitialPool + 1
    /\ Quiet
    /\ Monitoring
    /\ loopUp = FALSE
    /\ lim = Limits(FallbackMsgs, MaxCmds, 0, 0, MaxFaults, TRUE)

FallbackNext ==
    \/ \E p \in Phones : p <= delivered + 1 /\ FallbackStart(p)
    \/ FallbackPop
    \/ FallbackInsert
    \/ \E ok \in BOOLEAN : FallbackCreated(ok)
    \/ FallbackCheckActive
    \/ FallbackQuery
    \/ \E res \in {"sent", "raise", "unsent"} : FallbackSend(res)

NextFallback ==
    \/ LoopNext
    \/ AgentNext
    \/ GatewayNext
    \/ BookkeepingNext
    \/ FallbackNext
    \/ LoopStart

FallbackSpec == InitFallback /\ [][NextFallback]_vars

\* ================================================================ claims
PoolCount(r) == Len(PoolKeys(r))
InFlight == waiting \cup Range(readyQ)
NoCreationInFlight == \A t \in InFlight : t.kind # "create"
QueriesInFlight == {t \in waiting : t.kind = "msg"}
\* the step of the loop thread that picks the pool key to draw
DrawStep == cur = <<>> /\ cur' # <<>> /\ cur'[1].pc = "pop"

\* C1: pool floor.  Whenever no assignment is under way, no replenishment is
\* in flight and no creation has failed, the registry holds at least 3 pool
\* slots.
C1_PoolFloor ==
    (cur = <<>> /\ NoCreationInFlight /\ faults = 0) => PoolCount(reg) >= PoolFloor

\* C2: agent ownership is never shared: no agent is stored under two registry
\* keys at once, in any state another thread can observe.
C2_NoSharedAgent ==
    \A i, j \in 1..Len(reg) : i # j => reg[i].bot # reg[j].bot

\* C3: no double assignment.  While a caller key stays in the registry its
\* agent never changes; a caller key only ever appears by the insert of a slot
\* that the same assignment popped from a pool key; and every query of a
\* caller's message goes to the agent stored under that caller's key.
C3_NoDoubleAssignment ==
    [][\A p \in Phones :
         LET k == UserKey(p) IN
         /\ (Has(reg, k) /\ Has(reg', k)) => Get(reg', k).bot = Get(reg, k).bot
         /\ (~Has(reg, k) /\ Has(reg', k)) =>
                /\ Running("msg", "insert")
                /\ cur[1].phone = p
                /\ IsPool(cur[1].k)
                /\ Get(reg', k).bot = cur[1].slot.bot
         /\ (Running("msg", "pop") /\ cur' # <<>> /\ cur'[1].pc = "insert") =>
                /\ Has(reg, cur[1].k)
                /\ cur'[1].slot.bot = Get(reg, cur[1].k).bot
                /\ ~Has(reg', cur[1].k)
         /\ \A t \in waiting' \ waiting :
                (t.kind = "msg" /\ t.phone = p) =>
                    Has(reg, k) /\ t.slot.bot = Get(reg, k).bot
      ]_vars

\* C3 witness: the caller of the first message sent a second one, and its
\* query runs on the agent the first message drew
C3_Witness ==
    /\ outcome[1] = "replied"
    /\ \E t \in QueriesInFlight : t.id = 2 /\ t.phone = 1 /\ t.slot.bot = 1
    /\ Has(reg, UserKey(1))

\* C4: FIFO draw by index.  Every draw takes the pool key with the lowest
\* numeric index among the pool keys present at that moment.
C4_DrawsLowestIndex ==
    [][DrawStep =>
         IndexOf(cur'[1].k) = Min({IndexOf(k) : k \in Range(PoolKeys(reg))})]_vars

\* C5: one operation at a time per agent.  No two queries are in flight on the
\* same agent, and no query is in flight on the agent the monitor is sending
\* the reset signal to.
C5_OneOperationPerAgent ==
    /\ \A t1, t2 \in QueriesInFlight : t1 # t2 => t1.slot.bot # t2.slot.bot
    /\ mon.pc = "signalling" => \A t \in QueriesInFlight : t.slot.bot # mon.bot

\* C6: idle close vs recycle.  Once a sweep is over and the loop thread is
\* between coroutines, no caller slot idle for more than the threshold is left
\* in the registry, and no closed agent is left in it; in a sweep that counted
\* more than 10 caller slots an agent is closed at most once, in a sweep that
\* counted 10 or fewer none is; only idle caller slots are closed or moved.
SweepOver == sweeps > 0 /\ mon.pc \in {"sleep", "dead"} /\ cur = <<>>
IdleEntry(e) == ~IsPool(e.key) /\ now - e.ts > inactive_threshold
C6_IdleCloseOrRecycle ==
    /\ SweepOver => \A i \in 1..Len(reg) :
                        ~IdleEntry(reg[i]) /\ closeCount[reg[i].bot] = 0
    /\ \A b \in Bots : closeCount[b] <= 1
    /\ \A i \in 1..Len(mon.remove) : mon.count > CloseLimit
    /\ \A i \in 1..Len(mon.convert) :
          /\ mon.count <= CloseLimit
          /\ ~IsPool(mon.convert[i])

\* C7: one snapshot per sweep.  The count a sweep decides on does not change
\* while the sweep runs, whatever is added to or removed from the registry
\* meanwhile; a sweep that counted more than 10 caller slots closes and never
\* recycles, a sweep that counted 10 or fewer recycles and never closes.
SweepRunning == mon.pc \notin {"sleep", "dead"}
C7_OneSnapshotPerSweep ==
    /\ [](SweepRunning =>
            /\ mon.count > CloseLimit => mon.convert = <<>>
            /\ mon.count <= CloseLimit => mon.remove = <<>>)
    /\ [][/\ (SweepRunning /\ SweepRunning') => mon'.count = mon.count
          /\ closeCount' # closeCount =>
                SweepRunning /\ mon.count > CloseLimit /\ mon'.remove # mon.remove
          /\ resets' # resets =>
                SweepRunning /\ mon.count <= CloseLimit /\ mon.convert # <<>>
         ]_vars

\* C7 witness: a new caller was assigned while the sweep was scanning, the
\* registry now holds more than 10 caller slots, and every idle slot of the
\* sweep, those scanned after the assignment too, is to be recycled
C7_Witness ==
    /\ mon.pc = "scan"
    /\ mon.count = CloseLimit
    /\ AssignedBotCount(reg) > CloseLimit
    /\ Len(mon.convert) >= CloseLimit
    /\ mon.remove = <<>>

C9_EmptyPoolIsAFault ==
    \A i \in MsgIds : outcome[i] # "unassigned"

\* C10: read-modify-write sequences on the registry are atomic.  While the
\* loop thread is between the read of the pool keys and the insert of the
\* caller key, while a replenishment has its key computed and its insert
\* pending, and while the monitor is between its scan and its last delete or
\* move, no other thread changes the registry.
LoopMidDraw == cur # <<>> /\ cur[1].pc \in {"pop", "insert"}
MonitorMidSweep == mon.pc \in {"scan", "remove", "convert", "signalling", "store", "del"}
C10_AtomicReadModifyWrite ==
    [][/\ (LoopMidDraw /\ cur' = cur) => reg' = reg
       /\ (MonitorMidSweep /\ mon' = mon) => reg' = reg
       /\ (~NoCreationInFlight /\ cur = <<>> /\ cur' = <<>> /\ readyQ' = readyQ)
             => reg' = reg
      ]_vars

\* C11: a failed close still removes the slot and does not stop the monitor.
\* The monitor thread is alive after a close that raised, and once the sweep
\* is over no agent whose close raised is left in the registry.
C11_CloseFailureStillRemoves ==
    /\ closeFailed # {} => mon.pc # "dead"
    /\ SweepOver => \A i \in 1..Len(reg) : reg[i].bot \notin closeFailed

\* C12: reply, then persist.  A bookkeeping task exists, and anything was done
\* for a message's bookkeeping, only after the reply to that message was handed
\* to the gateway; the step that sends the reply ends the message's coroutine
\* and leaves the bookkeeping task queued with nothing of it done yet.
AllTasks == Range(readyQ) \cup waiting \cup Range(cur)
C12_ReplyThenPersist ==
    /\ [](\A t \in AllTasks : t.kind = "persist" => outcome[t.id] = "replied")
    /\ [](\A i \in MsgIds : note[i] # NoNote => outcome[i] = "replied")
    /\ [][\A i \in MsgIds :
            (outcome[i] # "replied" /\ outcome'[i] = "replied") =>
               /\ \A t \in AllTasks' : t.kind = "msg" => t.id # i
               /\ \E j \in 1..Len(readyQ') :
                     /\ readyQ'[j].kind = "persist"
                     /\ readyQ'[j].id = i
                     /\ readyQ'[j].pc = "cache"
               /\ note'[i] = NoNote
         ]_vars

\* C12 witness: the first message was answered and its messages are being
\* saved, while the query of a later message is already in flight
C12_Witness ==
    /\ outcome[1] = "replied"
    /\ \E t \in waiting : t.kind = "persist" /\ t.id = 1 /\ t.pc = "saving"
    /\ \E t \in waiting : t.kind = "msg" /\ t.id = 2 /\ t.pc = "await"

\* C13: cache correctness.  The counters count exactly the lookups made, a
\* lookup is a hit exactly when the key is in the cache, a hit hands out the
\* cached identifier and never calls get_customers, and a cached key stays
\* cached, so every lookup after a store is a hit.
Lookups(kind) == {i \in MsgIds : note[i].lookup = kind}
C13_CacheCorrect ==
    /\ [](/\ stats.hits = Cardinality(Lookups("hit"))
          /\ stats.misses = Cardinality(Lookups("miss"))
          /\ \A i \in Lookups("hit") : ~note[i].fetched
          /\ \A i \in Lookups("miss") : note[i].fetched)
    /\ [][/\ \A p \in Phones : cache[p] # 0 => cache'[p] # 0
          /\ \A i \in MsgIds :
               (note[i].lookup = "none" /\ note'[i].lookup # "none") =>
                  LET t == Head(readyQ) IN
                  /\ t.kind = "persist" /\ t.id = i
                  /\ note'[i].lookup = "hit" <=> cache[t.phone] # 0
                  /\ cache[t.phone] # 0 =>
                        \E u \in waiting' :
                           /\ u.kind = "persist" /\ u.id = i /\ u.pc = "saving"
                           /\ u.cid = cache[t.phone]
         ]_vars

\* C13 witness: after a miss stored the identifier, a later lookup for the same
\* caller was a hit and its messages were saved
C13_Witness ==
    /\ stats.misses >= 1
    /\ \E i \in MsgIds : note[i].lookup = "hit" /\ note[i].persist = "saved"

\* ------------------------------------------------------------------ C14
\* C14: a message delivered while the loop is not running is taken by the
\* callback thread itself, with the warning printed and nothing scheduled on
\* the loop; the callback thread performs no cache, statistics or database
\* operation and no bookkeeping task ever exists for such a message; when no
\* fault occurred the caller holds a slot when the callback returns, and the
\* reply was sent exactly if that slot is active.
SyncMessages == {i \in MsgIds : note[i].warned}
SyncStep ==
    /\ (delivered' # delivered /\ ~loopUp) =>
          /\ note'[delivered'].warned
          /\ gw'.pc # "idle" /\ gw'.id = delivered'
          /\ readyQ' = readyQ /\ cur' = cur /\ waiting' = waiting
    /\ gw' # gw => (cache' = cache /\ stats' = stats /\ db' = db)
    /\ (gw.pc # "idle" /\ gw'.pc = "idle" /\ faults' = 0) =>
          /\ Has(reg', UserKey(gw.phone))
          /\ outcome'[gw.id] = IF IsActive(reg', UserKey(gw.phone))
                                THEN "replied" ELSE "paused"
C14_Fallback ==
    /\ [](\A i \in SyncMessages :
            /\ \A t \in AllTasks : t.kind \in {"msg", "persist"} => t.id # i
            /\ note[i].lookup = "none" /\ ~note[i].fetched /\ note[i].persist = "none")
    /\ [][SyncStep]_vars
\* a caller without a slot was answered on the callback thread, the pool was
\* refilled on that thread, and a later message went through the loop and
\* was recorded
C14_Witness ==
    \E i, j \in MsgIds :
        /\ note[i].warned /\ outcome[i] = "replied"
        /\ Has(reg, PoolKey(InitialPool + 1))
        /\ ~note[j].warned /\ note[j].persist = "saved"

\* ------------------------------------------------------------------ C15
\* C15: with the loop running, a message is never left without a reply
\* unless its caller's slot was found paused: every message that was dealt
\* with was either answered or skipped for a paused slot.
C15_AlwaysReplied ==
    loopUp => \A i \in MsgIds : outcome[i] \in {"none", "replied", "paused"}

\* ------------------------------------------------------------------ C16
\* C16: no step of the monitor thread removes or changes a slot that is
\* stored under a pool key: every pool key of the registry is still there
\* after the step, with the same timestamp, agent and active flag.
MonitorStep == mon' # mon
PoolSlotsKept ==
    \A i \in 1..Len(reg) :
        IsPool(reg[i].key) => Has(reg', reg[i].key) /\ Get(reg', reg[i].key) = SlotOf(reg[i])
C16_MonitorLeavesPool == [][MonitorStep => PoolSlotsKept]_vars

\* ------------------------------------------------------------------ C17
\* C17: pool keys are never reused: two insertions that are under way never
\* target the same pool key, and an insertion never targets a pool key that
\* is in the registry already.
Creations == {t \in InFlight : t.kind = "create"}
C17_FreshPoolKeys ==
    /\ \A t, u \in Creations : t # u => t.k # u.k
    /\ \A t \in Creations : ~Has(reg, t.k)

\* ------------------------------------------------------------------ C18
\* C18: once the signal handler has begun no sweep of the monitor starts, and
\* when the process exits the close of every agent that is in the registry
\* has been attempted.
C18_ShutdownOrdering ==
    /\ [](Exited => \A i \in 1..Len(reg) : reg[i].bot \in sd.attempted)
    /\ [][sd.pc # "off" => sweeps' = sweeps]_vars

\* ------------------------------------------------------------------ C19
\* C19: while the loop is running, a step in which an agent is closed or is
\* sent the reset signal is never a step of the monitor thread nor of the
\* callback thread.
AgentClosedOrReset == closeCount' # closeCount \/ resets' # resets
C19_AgentCallsOnLoop ==
    [][(loopUp /\ AgentClosedOrReset) => (mon' = mon /\ gw' = gw)]_vars

\* ------------------------------------------------------------------ C20
\* C20: every message of a caller that holds a slot refreshes the slot's
\* timestamp, paused or not: the step that checks such a message against the
\* slot always goes on to the statement that sets last_activity (line 208),
\* it never ends the message there.
CheckedAgainstSlot ==
    /\ Running("msg", "check")
    /\ cur' # cur
    /\ Has(reg, UserKey(cur[1].phone))
C20_EveryMessageTouches ==
    [][CheckedAgainstSlot => (cur' # <<>> /\ cur'[1].pc = "touch")]_vars

\* ------------------------------------------------------------------ C21
\* C21: an event of a chat that is not a private one, self-sent or not, is
\* ignored: the step that receives it leaves the registry, the cache, its
\* counters and the customers alone, schedules nothing on the loop, queries
\* no agent and sends nothing; nothing is ever done for it later.
OtherChatStep ==
    \E fromMe, start \in BOOLEAN, p \in Phones, d \in Domains \ {"s.whatsapp.net"} :
        HandleEvent(fromMe, p, d, start)
C21_OtherChatsIgnored ==
    /\ [](\A i \in MsgIds : outcome[i] = "ignored" =>
            /\ note[i] = NoNote
            /\ \A t \in AllTasks : t.id # i)
    /\ [][OtherChatStep =>
            UNCHANGED <<reg, cache, stats, db, readyQ, cur, waiting, gw, confirms,
                        muted, closeCount, resets, nextBot, note, faults>>]_vars
\* a group event was ignored in a run in which a private message was
\* answered and recorded
C21_Witness ==
    \E i, j \in MsgIds :
        /\ outcome[i] = "ignored"
        /\ outcome[j] = "replied" /\ note[j].persist = "saved"

SelfSentStep == cmds' # cmds
SameBut(s, t) == s.ts = t.ts /\ s.bot = t.bot
MissingCredential == \E c \in Credentials : ~boot.env[c]
Bound(p) == ~Has(reg, UserKey(p)) /\ Has(reg', UserKey(p))
C25_AssignedSlotIsFresh ==
    [][\A p \in Phones :
         Bound(p) => (Get(reg', UserKey(p)).active /\ Get(reg', UserKey(p)).ts = now)]_vars

\* ------------------------------------------------------------------ C26
\* C26: a step of the monitor removes a caller key only if the slot under it
\* is idle at that moment: the time since its timestamp still exceeds the
\* threshold.
Reclaimed(p) == MonitorStep /\ Has(reg, UserKey(p)) /\ ~Has(reg', UserKey(p))
C26_IdleAtRemoval ==
    [][\A p \in Phones :
         Reclaimed(p) => IsInactive(now, Get(reg, UserKey(p)).ts)]_vars

\* ------------------------------------------------------------------ C27
\* C27: the recycle of an idle caller slot stores the same agent under one
\* pool key, active and with the time of the store as its timestamp, also
\* when the caller slot was paused; the agent is under no pool key until then,
\* and the reset signal, sent before, is not running any more; the step that
\* ends the recycle removes the caller key.
PoolKeysOf(r, b) == {i \in 1..Len(r) : IsPool(r[i].key) /\ r[i].bot = b}
StoreStep == mon.pc = "store" /\ mon'.pc = "del"
DelStep == mon.pc = "del" /\ mon'.pc # "del"
Scheduling(S) == {<<t.id, t.k>> : t \in {u \in S : u.kind = "create"}}
NewCreations == Scheduling(InFlight') \ Scheduling(InFlight)
BindStep == Running("msg", "insert") /\ cur' # cur
C28_ReplenishmentTrigger ==
    /\ [][BindStep =>
            /\ Has(reg', UserKey(cur[1].phone))
            /\ Cardinality(NewCreations) =
                  IF Len(PoolKeys(reg')) < PoolFloor THEN 1 ELSE 0]_vars
    /\ [][NewCreations # {} => BindStep]_vars
    /\ [][nextBot' # nextBot =>
            /\ nextBot' = nextBot + 1
            /\ \E t \in waiting \ waiting' : t.kind = "create"]_vars
\* two draws, one creation: the first draw left 2 pool keys and scheduled a
\* creation, the second, after a recycle had refilled the pool, left 3 and
\* scheduled none
C28_Witness ==
    /\ delivered = 2 /\ faults = 0
    /\ Has(reg, UserKey(2)) /\ ~Has(reg, UserKey(1))
    /\ Len(PoolKeys(reg)) = 3
    /\ NoCreationInFlight /\ cur = <<>>
    /\ nextBot = InitialPool + 2

\* ------------------------------------------------------------------ C29
\* C29: while the loop is not running and no creation has failed, the
\* registry holds at least 3 pool keys whenever the callback thread is not
\* inside an assignment; the agent that refills the pool is created by a
\* step of the callback thread, inside the assignment, and stored active
\* under a pool key that was not in the registry.
InAssignment == gw.pc \in {"pop", "insert", "create"}
C29_SynchronousReplenishment ==
    /\ []((~loopUp /\ faults = 0 /\ ~InAssignment) => Len(PoolKeys(reg)) >= PoolFloor)
    /\ [][(nextBot' # nextBot /\ ~loopUp) =>
            /\ gw.pc = "create" /\ gw'.pc = "check"
            /\ ~Has(reg, gw.k) /\ IsPool(gw.k)
            /\ Get(reg', gw.k) = NewSlot(gw.slot.ts, nextBot)
            /\ Len(PoolKeys(reg')) = Len(PoolKeys(reg)) + 1]_vars
\* two callers were assigned with the loop down and the pool is full again,
\* with the two agents created on the callback thread
C29_Witness ==
    /\ ~loopUp /\ gw.pc = "idle"
    /\ Has(reg, UserKey(1)) /\ Has(reg, UserKey(2))
    /\ PoolKeys(reg) = <<PoolKey(3), PoolKey(4), PoolKey(5)>>
    /\ Get(reg, PoolKey(5)).bot = 5

\* ------------------------------------------------------------------ C30
\* C30: a failure of the customer lookup, of the customer creation (with its
\* display-name fetch) or of a history append ends or is absorbed by the
\* bookkeeping task of that message alone: the step leaves the registry, the
\* replies, the cache and every other coroutine as they are, and the message
\* it belongs to stays answered.
PersistFault(t) ==
    /\ t \in waiting /\ t.kind = "persist" /\ t \notin waiting'
    /\ faults' = faults + 1
C30_PersistenceFaultsIsolated ==
    /\ [](\A i \in MsgIds : note[i].persist \in {"error", "unsaved"} => outcome[i] = "replied")
    /\ [][\A t \in waiting :
            PersistFault(t) =>
              /\ UNCHANGED <<reg, outcome, cache, db, readyQ, cur, nextBot, gw, mon>>
              /\ waiting' = waiting \ {t}
              /\ \A u \in AllTasks' : u.id # t.id \/ u.kind = "create"]_vars
\* the lookup of the first message failed; the second message of the same
\* caller was answered and recorded all the same
C30_Witness ==
    /\ note[1].persist = "error"
    /\ outcome[1] = "replied"
    /\ outcome[2] = "replied" /\ note[2].persist = "saved"
    /\ Has(reg, UserKey(1)) /\ ~Has(reg, UserKey(2))

\* ------------------------------------------------------------------ C31
\* C31: the step in which an agent query raises ends the coroutine of that
\* message only: the registry is as it was (the caller's key, agent and
\* active flag included), the loop is still running, and no other coroutine,
\* queued or suspended, is touched; the message is never answered.
QueryFault(t) ==
    /\ t \in waiting /\ t.kind = "msg" /\ t.pc = "await" /\ t \notin waiting'
    /\ faults' = faults + 1
QueryFaultFrame ==
    \A t \in waiting :
        QueryFault(t) =>
           /\ UNCHANGED <<reg, loopUp, readyQ, cur, gw, mon, nextBot>>
           /\ waiting' = waiting \ {t}
           /\ outcome'[t.id] = "qfail"
C31_QueryFaultContained ==
    /\ [](\A i \in MsgIds : outcome[i] = "qfail" =>
            loopUp /\ \A t \in AllTasks : t.id # i \/ t.kind = "create")
    /\ [][QueryFaultFrame]_vars
    /\ [][\A i \in MsgIds : outcome[i] = "qfail" => outcome'[i] = "qfail"]_vars
\* the query of the first message raised; a later message of the same caller
\* was answered by the same agent's slot and a message of another caller was
\* answered too
C31_Witness ==
    /\ outcome[1] = "qfail"
    /\ outcome[2] = "replied" /\ outcome[3] = "replied"
    /\ Has(reg, UserKey(1)) /\ Get(reg, UserKey(1)).bot = 1
    /\ Has(reg, UserKey(2))

\* ------------------------------------------------------------------ C32
\* C32: the reset signal is sent only by the monitor when it starts the
\* recycle of a slot, once for that slot: the step that takes a key of the
\* convert list sends one signal to that key's agent, no other step sends
\* any (not an assignment, not a sweep that closes), and a slot is stored in
\* the pool by the monitor only after that one signal.
SignalStep == mon.pc # "signalling" /\ mon'.pc = "signalling"
ResetFrame ==
    /\ SignalStep =>
          /\ mon.pc = "convert" /\ mon.convert # <<>>
          /\ mon'.key = Head(mon.convert) /\ ~IsPool(mon'.key)
          /\ resets' = [resets EXCEPT ![mon'.bot] = @ + 1]
          /\ mon.count <= CloseLimit
    /\ resets' # resets => SignalStep
    /\ (cur' # cur \/ gw' # gw \/ closeCount' # closeCount) => resets' = resets
    /\ (mon.pc # "store" /\ mon'.pc = "store") =>
          (mon.pc = "signalling" /\ mon'.bot = mon.bot /\ mon'.key = mon.key)
C32_ResetOnlyOnRecycle == [][ResetFrame]_vars
\* the sweep recycled the ten idle callers, each agent was sent one signal,
\* and the caller assigned meanwhile drew an agent that got none
C32_Witness ==
    /\ mon.pc = "sleep" /\ sweeps = 1
    /\ \A p \in 1..CloseLimit : ~Has(reg, UserKey(p)) /\ resets[p] = 1
    /\ Has(reg, UserKey(CloseLimit + 2))
    /\ resets[Get(reg, UserKey(CloseLimit + 2)).bot] = 0
    /\ \A b \in Bots : closeCount[b] = 0

\* ------------------------------------------------------------------ C33
\* C33: a call of clear_customer_cache leaves the cache empty and both
\* counters at zero; the first lookup made after it, whoever the caller, is
\* a miss that calls get_customers; and no step but a clear removes a cache
\* entry.
ClearStep == cleared' # cleared
LookupStep == ~ClearStep /\ stats' # stats
C33_ClearForcesMiss ==
    /\ [][ClearStep => (cache' = NothingCached /\ stats' = NoStats)]_vars
    /\ [][(\E p \in Phones : cache[p] # 0 /\ cache'[p] = 0) => ClearStep]_vars
    /\ [][(cleared > 0 /\ stats = NoStats /\ LookupStep) =>
            /\ stats' = [hits |-> 0, misses |-> 1]
            /\ \E t \in waiting' \ waiting : t.kind = "persist" /\ t.pc = "get"]_vars

\* ------------------------------------------------------------------ C34
\* C34: no agent is leaked.  Whenever nothing is in flight (no coroutine
\* running, queued or suspended, the callback thread idle, the monitor
\* between sweeps), every agent created so far is stored under exactly one
\* registry key or has had close called on it; and no write to the registry
\* replaces a slot that holds another agent whose close was never called.
NothingInFlight ==
    /\ cur = <<>> /\ readyQ = <<>> /\ waiting = {}
    /\ gw.pc = "idle"
    /\ mon.pc \in {"sleep", "dead"}
SlotsOf(r, b) == {i \in 1..Len(r) : r[i].bot = b}
Overwritten(k) ==
    /\ Has(reg, k) /\ Has(reg', k)
    /\ Get(reg', k).bot # Get(reg, k).bot
C34_NoAgentLeak ==
    /\ [](NothingInFlight =>
            \A b \in 1..(nextBot - 1) :
                Cardinality(SlotsOf(reg, b)) = 1 \/ closeCount[b] > 0)
    /\ [][\A k \in Keys(reg) : Overwritten(k) => closeCount[Get(reg, k).bot] > 0]_vars

\* ------------------------------------------------------------------ C35
\* C35: no query after close.  No agent query is started on an agent on
\* which the monitor has called close, whether the caller key has been
\* removed yet or not.
QueriesStarted == {t \in waiting' \ waiting : t.kind = "msg" /\ t.pc = "await"}
C35_NoQueryAfterClose ==
    [][\A t \in QueriesStarted : closeCount[t.slot.bot] = 0]_vars

\* ------------------------------------------------------------------ C36
\* C36: whatever the other threads insert or delete while a sweep scans the
\* registry, the monitor keeps running, so that with every thread scheduled
\* fairly there comes a time after which no caller slot idle for more than
\* the threshold is left in the registry.
IdleSlots == {i \in 1..Len(reg) : IdleEntry(reg[i])}
C36_IdleEventuallyReclaimed == <>[](IdleSlots = {})

\* ------------------------------------------------------------------ C37
\* C37: for one caller a customer is created at most once, however many
\* bookkeeping tasks of that caller run and however they overlap; and the
\* identifier cached for a caller is never replaced by another one (no run
\* of this specification clears the cache).
CustomerAdded(p) == db'[p] > db[p]
Recached(p) == cache[p] # 0 /\ cache'[p] # cache[p]
C37_OneCustomerPerCaller ==
    [][\A p \in Phones :
         /\ CustomerAdded(p) => db[p] = 0
         /\ ~Recached(p)]_vars

\* ------------------------------------------------------------------ C38
\* C38: a slot that a caller has just drawn is not closed or recycled by a
\* sweep before the caller has held it for the threshold, however old the
\* slot was in the pool.  In the sweep runs the clock stands still: the pool
\* slots are older than the threshold and the new caller draws its slot
\* during the run, so the monitor must never close that caller's agent nor
\* remove its key.
NewCaller == CloseLimit + 2
ClosedUnder(k) == Has(reg, k) /\ closeCount'[Get(reg, k).bot] # closeCount[Get(reg, k).bot]
C38_DrawnSlotHeldForThreshold ==
    [][~ClosedUnder(UserKey(NewCaller)) /\ ~Reclaimed(NewCaller)]_vars

\* ------------------------------------------------------------------ C39
\* C39: a message never ends in an error for a registry key that is gone:
\* the statements that follow the presence check (the timestamp update and
\* the read of the agent) complete also when the monitor has removed the
\* caller's key in between.
AfterPresenceCheck == Running("msg", "touch") /\ cur' # cur
C39_NoMissingKeyFault ==
    [][AfterPresenceCheck => outcome'[cur[1].id] # "fault"]_vars

\* ------------------------------------------------------------------ C40
\* C40: every slot stored under a pool key is active, in every state: the
\* slots of the pool fill, those of a replenishment and those recycled from
\* a paused caller; so the slot a new caller draws is active when the caller
\* key appears, although the draw does not set the flag.
C40_PoolSlotsActive ==
    /\ [](\A i \in 1..Len(reg) : IsPool(reg[i].key) => reg[i].active)
    /\ [](Running("msg", "insert") => cur[1].slot.active)
    /\ [][\A p \in Phones : Bound(p) => Get(reg', UserKey(p)).active]_vars
\* the slot of a paused caller was recycled and is active in the pool, next
\* to a replenished slot, and another caller has drawn an active slot since
C40_Witness ==
    /\ 1 \in muted /\ ~Has(reg, UserKey(1))
    /\ \E i \in 1..Len(reg) : IsPool(reg[i].key) /\ reg[i].bot = 1 /\ reg[i].active
    /\ \E i \in 1..Len(reg) : IsPool(reg[i].key) /\ reg[i].bot > InitialPool
    /\ Has(reg, UserKey(2)) /\ Get(reg, UserKey(2)).active
    /\ sweeps > 0

====
